---- MODULE Spec2Model ----
(***************************************************************************)
(* The render engine of rust-mustache (src/src/template.rs) over the value *)
(* model of src/src/data.rs, as a state machine.                           *)
(*                                                                         *)
(* Text is a sequence of one-character strings.  A Data value is a node of *)
(* a read-only arena and the context stack holds node ids, as the Rust     *)
(* stack holds references into the caller's value tree.  The recursion of  *)
(* RenderContext::render is an explicit sequence of frames, one per active *)
(* call of render(); every token is rendered by one action.                *)
(* The JSON tokens of the CFEngine feature are left out: they take no part *)
(* in the properties checked here.                                         *)
(***************************************************************************)
EXTENDS Integers, Sequences, FiniteSets, TLC

VARIABLES
    cfengine,    \* the build: TRUE when feature "CFEngine" is compiled in
    partials,    \* Template.partials: partial name -> token list
    root,        \* the Data handed to render_data
    frames,      \* the active calls of RenderContext::render, outermost first
    stack,       \* the context stack (Vec<&Data>)
    indent,      \* RenderContext.indent
    line_start,  \* RenderContext.line_start
    at,          \* RenderContext.at
    bufs,        \* the writers: bufs[1] is the sink, the others are the
                 \* scratch buffers of the render_etag calls in progress
    borrowed,    \* the Fun cells whose RefMut guard is alive
    calls,       \* the invocations of the producers so far
    status,      \* "run", "ok", "err" (a Result::Err came back), "panic"
    last         \* what the last step did, and the context it started from

vars == <<cfengine, partials, root, frames, stack, indent, line_start, at,
          bufs, borrowed, calls, status, last>>

----------------------------------------------------------------------------
(* Bounds *)

\* Deepest nesting of render() calls the model follows.
MaxDepth == 6

----------------------------------------------------------------------------
(* Text *)

NL == "\n"

Last(s) == s[Len(s)]

RECURSIVE Concat(_)
Concat(ss) == IF ss = <<>> THEN <<>> ELSE Head(ss) \o Concat(Tail(ss))

\* Byte order of the characters that occur in map keys.
Alphabet == <<"a", "b", "e", "f", "k", "l", "m", "n", "o", "q", "r", "s",
              "t", "u", "v", "w">>

Ord(c) == CHOOSE i \in 1..Len(Alphabet) : Alphabet[i] = c

\* String's Ord: lexicographic, a proper prefix first.
RECURSIVE StrLess(_, _)
StrLess(a, b) ==
    IF b = <<>> THEN FALSE
    ELSE IF a = <<>> THEN TRUE
    ELSE IF Head(a) = Head(b) THEN StrLess(Tail(a), Tail(b))
    ELSE Ord(Head(a)) < Ord(Head(b))

Digits == <<"0", "1", "2", "3", "4", "5", "6", "7", "8", "9">>

\* usize::to_string
RECURSIVE usize_to_string(_)
usize_to_string(n) ==
    IF n < 10 THEN <<Digits[n + 1]>>
    ELSE usize_to_string(n \div 10) \o <<Digits[(n % 10) + 1]>>

\* bool::to_string
bool_to_string(b) ==
    IF b THEN <<"t", "r", "u", "e">> ELSE <<"f", "a", "l", "s", "e">>

----------------------------------------------------------------------------
(* Data *)

None == 0

DNull      == [tag |-> "Null",   s |-> <<>>, b |-> FALSE, items |-> <<>>, entries |-> {}]
DString(x) == [tag |-> "String", s |-> x,    b |-> FALSE, items |-> <<>>, entries |-> {}]
DBool(x)   == [tag |-> "Bool",   s |-> <<>>, b |-> x,     items |-> <<>>, entries |-> {}]
DVec(x)    == [tag |-> "Vec",    s |-> <<>>, b |-> FALSE, items |-> x,    entries |-> {}]
DMap(x)    == [tag |-> "Map",    s |-> <<>>, b |-> FALSE, items |-> <<>>, entries |-> x]
\* A producer; s is the text of the closure's behaviour (see FunBody).
DFun(x)    == [tag |-> "Fun",    s |-> x,    b |-> FALSE, items |-> <<>>, entries |-> {}]

\* The value trees handed to the engine.  A Map's entries are <<key, node>>
\* pairs in no order (HashMap).
Arena == <<
    DNull,                                          \*  1
    DBool(TRUE),                                    \*  2
    DBool(FALSE),                                   \*  3
    DString(<<>>),                                  \*  4
    DString(<<"<", ">", "&", "\"", "'", "a">>),     \*  5
    DString(<<"c", NL, "d">>),                      \*  6
    DVec(<<>>),                                     \*  7
    DVec(<<9, 10>>),                                \*  8
    DString(<<"p">>),                               \*  9
    DMap({<< <<"s">>, 11 >>}),                      \* 10
    DString(<<"q">>),                               \* 11
    DMap({}),                                       \* 12
    DMap({<< <<"b">>, 14 >>, << <<"a">>, 15 >>, << <<"m">>, 16 >>}),  \* 13
    DString(<<"y">>),                               \* 14
    DBool(TRUE),                                    \* 15
    DString(<<"k">>),                               \* 16
    DFun(<<"echo">>),                               \* 17
    DFun(<<"tag">>),                                \* 18
    DFun(<<"self">>),                               \* 19
    DFun(<<"open">>),                               \* 20
    DMap({<< <<"n">>, 1 >>, << <<"t">>, 2 >>, << <<"f">>, 3 >>,
          << <<"e">>, 4 >>, << <<"s">>, 5 >>, << <<"u">>, 6 >>,
          << <<"w">>, 7 >>, << <<"v">>, 8 >>, << <<"o">>, 12 >>,
          << <<"m">>, 13 >>, << <<"l">>, 17 >>, << <<"k">>, 18 >>,
          << <<"r">>, 19 >>, << <<"b">>, 20 >>, << <<"q">>, 22 >>}),  \* 21
    DFun(<<"section">>),                            \* 22
    DMap({<< <<"n">>, 1 >>, << <<"t">>, 2 >>, << <<"f">>, 3 >>,
          << <<"e">>, 4 >>, << <<"s">>, 5 >>, << <<"u">>, 6 >>,
          << <<"w">>, 7 >>, << <<"v">>, 8 >>, << <<"o">>, 12 >>,
          << <<"m">>, 13 >>})                       \* 23
>>

\* The root data: a Map with producers, a Vec, a Map without producers.
Roots == {21, 8, 23}

Node(id) == Arena[id]

\* HashMap::get
MapGet(id, key) ==
    IF \E e \in Node(id).entries : e[1] = key
    THEN (CHOOSE e \in Node(id).entries : e[1] = key)[2]
    ELSE None

\* The keys of a Map in BTreeMap order.
RECURSIVE SortKeys(_)
SortKeys(ks) ==
    IF ks = {} THEN <<>>
    ELSE LET k == CHOOSE x \in ks : \A y \in ks \ {x} : StrLess(x, y)
         IN  <<k>> \o SortKeys(ks \ {k})

BTreeKeys(id) == SortKeys({e[1] : e \in Node(id).entries})

----------------------------------------------------------------------------
(* Tokens *)

OTAG == <<"{", "{">>
CTAG == <<"}", "}">>

Tok(k) == [kind |-> k, path |-> <<>>, text |-> <<>>, inverted |-> FALSE,
           children |-> <<>>, fdata |-> <<OTAG, <<>>, CTAG>>,
           name |-> <<>>, indent |-> <<>>]

Text(s)                 == [Tok("Text") EXCEPT !.text = s]
EscapedTag(p)           == [Tok("EscapedTag") EXCEPT !.path = p]
UnescapedTag(p)         == [Tok("UnescapedTag") EXCEPT !.path = p]
\* fd is <<otag, raw source of the section body, ctag>>
Section(p, inv, ch, fd) == [Tok("Section") EXCEPT !.path = p, !.inverted = inv,
                                                  !.children = ch, !.fdata = fd]
Partial(n, ind)         == [Tok("Partial") EXCEPT !.name = n, !.indent = ind]
IncompleteSection       == Tok("IncompleteSection")
At                      == Tok("At")
TopSection(ch)          == [Tok("TopSection") EXCEPT !.children = ch]

\* children.contains(&Token::At)
ContainsAt(children) == \E i \in 1..Len(children) : children[i].kind = "At"

----------------------------------------------------------------------------
(* The compiler, as far as render_fun needs it: text, {{name}}, {{&name}},  *)
(* {{#name}}..{{/name}} and {{^name}}..{{/name}}                            *)

\* The first index >= from at which pat occurs in s, or 0.
RECURSIVE IndexOf(_, _, _)
IndexOf(s, pat, from) ==
    IF from + Len(pat) - 1 > Len(s) THEN 0
    ELSE IF SubSeq(s, from, from + Len(pat) - 1) = pat THEN from
    ELSE IndexOf(s, pat, from + 1)

\* A dotted name as path segments; "." alone is the empty path.
RECURSIVE SplitDots(_, _)
SplitDots(name, seg) ==
    IF name = <<>> THEN <<seg>>
    ELSE IF Head(name) = "." THEN <<seg>> \o SplitDots(Tail(name), <<>>)
    ELSE SplitDots(Tail(name), Append(seg, Head(name)))

TagPath(name) == IF name = <<".">> THEN <<>> ELSE SplitDots(name, <<>>)

TagToken(content) ==
    IF content # <<>> /\ Head(content) = "&"
    THEN UnescapedTag(TagPath(Tail(content)))
    ELSE EscapedTag(TagPath(content))

IsSectionTag(content) == content # <<>> /\ Head(content) \in {"#", "^"}

RECURSIVE Compile(_, _, _)
Compile(src, otag, ctag) ==
    IF src = <<>> THEN [ok |-> TRUE, tokens |-> <<>>]
    ELSE LET i == IndexOf(src, otag, 1) IN
      IF i = 0 THEN [ok |-> TRUE, tokens |-> <<Text(src)>>]
      ELSE LET j == IndexOf(src, ctag, i + Len(otag)) IN
        IF j = 0 THEN [ok |-> FALSE, tokens |-> <<>>]
        ELSE LET pre     == IF i > 1 THEN <<Text(SubSeq(src, 1, i - 1))>>
                            ELSE <<>>
                 content == SubSeq(src, i + Len(otag), j - 1)
                 after   == j + Len(ctag)
             IN
          IF IsSectionTag(content)
          THEN LET closer == otag \o <<"/">> \o Tail(content) \o ctag
                   k      == IndexOf(src, closer, after)
               IN
            IF k = 0 THEN [ok |-> FALSE, tokens |-> <<>>]
            ELSE LET inner == SubSeq(src, after, k - 1)
                     body  == Compile(inner, otag, ctag)
                     rest  == Compile(SubSeq(src, k + Len(closer), Len(src)),
                                      otag, ctag)
                     sec   == Section(TagPath(Tail(content)),
                                      Head(content) = "^", body.tokens,
                                      <<otag, inner, ctag>>)
                 IN  [ok |-> body.ok /\ rest.ok,
                      tokens |-> pre \o <<sec>> \o rest.tokens]
          ELSE LET rest == Compile(SubSeq(src, after, Len(src)), otag, ctag)
               IN  [ok |-> rest.ok,
                    tokens |-> pre \o <<TagToken(content)>> \o rest.tokens]

\* What the closure in Fun cell id returns for src.
FunBody(id, src) ==
    CASE Node(id).s = <<"echo">> -> src
      [] Node(id).s = <<"tag">>  -> <<"{", "{", "&", "s", "}", "}", "a", NL>>
      [] Node(id).s = <<"self">> -> <<"{", "{", "r", "}", "}">>
      [] Node(id).s = <<"section">> ->
           <<"{", "{", "#", "q", "}", "}", "A", "{", "{", "/", "q", "}", "}">>
      [] OTHER                   -> <<"{", "{">>

----------------------------------------------------------------------------
(* Output *)

\* write_tracking_newlines: the bytes written and line_start afterwards
write_tracking_newlines(value, ls) ==
    [bytes |-> value,
     ls    |-> IF value = <<>> THEN ls ELSE Last(value) = NL]

\* write_indent: the bytes written
write_indent(ind, ls) == IF ls THEN ind ELSE <<>>

\* The loop of render_text from byte pos (1-based) on.
RECURSIVE render_text_lines(_, _, _, _)
render_text_lines(value, pos, ind, ls) ==
    IF pos > Len(value) THEN [bytes |-> <<>>, ls |-> ls]
    ELSE LET i    == IndexOf(value, <<NL>>, pos)
             stop == IF i = 0 THEN Len(value) ELSE i
             line == SubSeq(value, pos, stop)
             pre  == IF line[1] # NL THEN write_indent(ind, ls) ELSE <<>>
             w    == write_tracking_newlines(line, ls)
             rest == render_text_lines(value, stop + 1, ind, w.ls)
         IN  [bytes |-> pre \o w.bytes \o rest.bytes, ls |-> rest.ls]

render_text(value, ind, ls) ==
    IF ind = <<>> THEN write_tracking_newlines(value, ls)
    ELSE render_text_lines(value, 1, ind, ls)

\* The byte loop of render_etag.
escape_byte(b) ==
    CASE b = "<"  -> <<"&", "l", "t", ";">>
      [] b = ">"  -> <<"&", "g", "t", ";">>
      [] b = "&"  -> <<"&", "a", "m", "p", ";">>
      [] b = "\"" -> <<"&", "q", "u", "o", "t", ";">>
      [] b = "'"  -> <<"&", "#", "3", "9", ";">>
      [] OTHER    -> <<b>>

RECURSIVE escape(_)
escape(bytes) ==
    IF bytes = <<>> THEN <<>>
    ELSE escape_byte(Head(bytes)) \o escape(Tail(bytes))

----------------------------------------------------------------------------
(* Path resolution *)

\* (mutant) the outermost Map that holds the key is taken
find_base_outermost(key, stk, i) ==
    LET holders == {j \in 1..i : Node(stk[j]).tag = "Map"
                                   /\ MapGet(stk[j], key) # None}
    IN  IF holders = {} THEN None
        ELSE MapGet(stk[CHOOSE j \in holders : \A k \in holders : j <= k],
                    key)

\* The scan of the stack from the innermost entry (index i) outwards.
RECURSIVE find_base(_, _, _)
find_base(key, stk, i) ==
    IF i = 0 THEN None
    ELSE IF Node(stk[i]).tag = "Map" /\ MapGet(stk[i], key) # None
         THEN MapGet(stk[i], key)
         ELSE find_base(key, stk, i - 1)

\* The walk along path[1..].
RECURSIVE find_walk(_, _)
find_walk(parts, value) ==
    IF parts = <<>> THEN value
    ELSE IF Node(value).tag = "Map" /\ MapGet(value, Head(parts)) # None
         THEN find_walk(Tail(parts), MapGet(value, Head(parts)))
         ELSE None

find(path, stk) ==
    IF path = <<>>
    THEN IF stk = <<>> THEN None ELSE Last(stk)
    ELSE LET base == find_base(path[1], stk, Len(stk)) IN
         IF base = None THEN None ELSE find_walk(Tail(path), base)

----------------------------------------------------------------------------
(* What each token kind does with the value its path resolves to *)

\* The Some(value) arm of render_utag for a value that is no Fun: the bytes
\* written and line_start afterwards.
render_utag_some(v, ind, ls) ==
    LET pre == write_indent(ind, ls) IN
      CASE Node(v).tag = "Null"   -> [bytes |-> pre, ls |-> ls]
        [] Node(v).tag = "String" ->
             LET w == write_tracking_newlines(Node(v).s, ls)
             IN  [bytes |-> pre \o w.bytes, ls |-> w.ls]
        [] Node(v).tag = "Bool"   ->
             LET w == write_tracking_newlines(bool_to_string(Node(v).b), ls)
             IN  [bytes |-> pre \o w.bytes, ls |-> w.ls]
        [] OTHER                  -> [bytes |-> pre, ls |-> ls]   \* bug!(..)

\* (mutant) the indent is written before the match on what find returned
render_utag_value_indent_first(v, ind, ls) ==
    IF v = None THEN [bytes |-> write_indent(ind, ls), ls |-> ls]
    ELSE render_utag_some(v, ind, ls)

\* render_utag on what find returned, a Fun apart.
render_utag_value(v, ind, ls) ==
    IF v = None THEN [bytes |-> <<>>, ls |-> ls]
    ELSE render_utag_some(v, ind, ls)

\* render_etag on a value that is no Fun.
render_etag_value(v, ind, ls) ==
    LET u == render_utag_value(v, ind, ls)
    IN  [bytes |-> escape(u.bytes), ls |-> u.ls]

\* render_at
render_at(a, ls) ==
    IF a # <<>> THEN write_tracking_newlines(a, ls)
    ELSE [bytes |-> <<>>, ls |-> ls]

\* The match of render_inverted_section: TRUE when the children are rendered.
inverted_renders(v) ==
    CASE v = None             -> TRUE
      [] Node(v).tag = "Null" -> TRUE
      [] Node(v).tag = "Bool" -> ~Node(v).b
      [] Node(v).tag = "Vec"  -> Node(v).items = <<>>
      [] OTHER                -> FALSE

\* One rendering of a section's children: the value pushed (if any) and the
\* anchor set (if any).
Visit(id, push, setAt, key) ==
    [id |-> id, push |-> push, setAt |-> setAt, key |-> key]

vec_visits(v) ==
    [i \in 1..Len(Node(v).items) |->
        Visit(Node(v).items[i], TRUE, TRUE, usize_to_string(i - 1))]

map_at_visits(v) ==
    LET ks == BTreeKeys(v)
    IN  [i \in 1..Len(ks) |-> Visit(MapGet(v, ks[i]), TRUE, TRUE, ks[i])]

\* A render_section without the CFEngine arm: the Map is always pushed whole.
map_visits_whole(v, children, cf) == <<Visit(v, TRUE, FALSE, <<>>)>>

map_visits(v, children, cf) ==
    IF cf /\ ContainsAt(children) THEN map_at_visits(v)
    ELSE <<Visit(v, TRUE, FALSE, <<>>)>>

\* The match of render_section on a value that is no Fun: the renderings of
\* the children, in order.
section_visits(v, children, cf) ==
    CASE v = None               -> <<>>
      [] Node(v).tag = "Null"   -> <<>>
      [] Node(v).tag = "Bool"   ->
           IF Node(v).b THEN <<Visit(v, FALSE, FALSE, <<>>)>> ELSE <<>>
      [] Node(v).tag = "String" ->
           IF Node(v).s # <<>> THEN <<Visit(v, TRUE, FALSE, <<>>)>> ELSE <<>>
      [] Node(v).tag = "Vec"    -> vec_visits(v)
      [] Node(v).tag = "Map"    -> map_visits(v, children, cf)
      [] OTHER                  -> <<>>

\* A render_section_top that renders the children once for every entry of
\* the stack, whatever its kind.
top_visits_every_frame(stk, i, children) ==
    [k \in 1..(Len(stk) - i + 1) |-> Visit(stk[i + k - 1], TRUE, FALSE, <<>>)]

\* render_section_top: the loop over the clone of the stack, from entry i on.
RECURSIVE top_visits(_, _, _)
top_visits(stk, i, children) ==
    IF i > Len(stk) THEN <<>>
    ELSE (IF Node(stk[i]).tag = "Map"
          THEN IF ContainsAt(children) THEN map_at_visits(stk[i])
               ELSE <<Visit(stk[i], TRUE, FALSE, <<>>)>>
          ELSE <<>>)
         \o top_visits(stk, i + 1, children)

\* render_partial: the prefix in force inside the partial, and after it.
partial_indent(cur, ind) == cur \o ind
partial_restore(saved, cur) == saved

\* A section that leaves the value it pushed on the stack.
stack_after_visit_no_pop(visit, stk) == stk

\* The stack after one rendering of a section's children: stack.pop().
stack_after_visit(visit, stk) ==
    IF visit.push THEN SubSeq(stk, 1, Len(stk) - 1) ELSE stk

\* The anchor after one rendering of a section's children.
at_after_visit(visit, cur) == IF visit.setAt THEN <<>> ELSE cur

\* render_fun: the closure's result, compiled.
render_fun(fid, src, otag, ctag) == Compile(FunBody(fid, src), otag, ctag)

----------------------------------------------------------------------------
(* Frames *)

NoVisits == <<>>

\* The context a call started from, kept to state what the call must leave
\* as it found it.
Here == [bufs |-> bufs, at |-> at, indent |-> indent,
         line_start |-> line_start, stack |-> stack, calls |-> calls,
         depth |-> Len(frames)]

Frame(kind, tokens, visits, tok) ==
    [kind |-> kind, tokens |-> tokens, pos |-> 1, visits |-> visits, vi |-> 1,
     saved |-> indent, fid |-> None, escape |-> FALSE, tok |-> tok,
     entry |-> Here]

NoFrame == [kind |-> "none", tokens |-> <<>>, pos |-> 1, visits |-> NoVisits,
            vi |-> 1, saved |-> <<>>, fid |-> None, escape |-> FALSE,
            tok |-> Tok("none"),
            entry |-> [bufs |-> <<>>, at |-> <<>>, indent |-> <<>>,
                       line_start |-> TRUE, stack |-> <<>>, calls |-> <<>>,
                       depth |-> 0]]

Top == frames[Len(frames)]
Running == status = "run" /\ frames # <<>>
AtToken == Running /\ Top.pos <= Len(Top.tokens)
AtEnd == Running /\ Top.pos > Len(Top.tokens)
Cur == Top.tokens[Top.pos]
Wr == bufs[Len(bufs)]

Emit(bytes) == [bufs EXCEPT ![Len(bufs)] = @ \o bytes]

\* A render() whose loop stays on the token it has rendered.
AdvanceNot(fs) == fs

Advance(fs) == [fs EXCEPT ![Len(fs)].pos = @ + 1]
Pop(s) == SubSeq(s, 1, Len(s) - 1)

\* The record of a step: the action, the token it rendered, the value the
\* token's path resolved to, the context before the step and, for a return,
\* the frame that returned.
Did(op, tok, v, f) ==
    [op |-> op, tok |-> tok, val |-> v, pre |-> Here, frame |-> f]

----------------------------------------------------------------------------
(* The templates and data rendered *)

P1(a) == << <<a>> >>
P2(a, b) == << <<a>>, <<b>> >>
P3(a, b, c) == << <<a>>, <<b>>, <<c>> >>
DOT == <<>>

FD == <<OTAG, <<>>, CTAG>>
\* A section written under the delimiters <% %>, with its raw source.
FDCustom == << <<"<", "%">>,
               <<"<", "%", "t", "%", ">", "{", "{", "t", "}", "}">>,
               <<"%", ">">> >>

TagPaths == {P1("n"), P1("t"), P1("f"), P1("e"), P1("s"), P1("u"), P1("w"),
             P1("m"), P1("l"), P1("k"), P1("r"), P1("b"), P1("q"), P1("z"), DOT,
             P2("m", "a"), P2("m", "z"), P2("s", "a"), P2("z", "a"),
             P3("m", "m", "a")}

SectionPaths == {P1("n"), P1("t"), P1("f"), P1("e"), P1("s"), P1("w"),
                 P1("v"), P1("o"), P1("m"), P1("l"), P1("k"), P1("q"), P1("z"),
                 DOT}

TextA == Text(<<"A">>)

BaseAtoms ==
    {Text(<<"h">>), Text(<<"a", NL, NL, "b", NL>>), Text(<<NL, "c">>),
     IncompleteSection,
     Partial(<<"P">>, <<" ">>), Partial(<<"Q">>, <<" ">>),
     Partial(<<"R">>, <<" ">>),
     Section(P1("l"), FALSE, <<TextA>>, FDCustom),
     Section(P1("r"), FALSE, <<TextA>>, FD),
     Section(P1("b"), FALSE, <<TextA>>, FD),
     Section(P1("v"), FALSE, <<UnescapedTag(P1("s")), EscapedTag(DOT)>>, FD),
     Section(P1("m"), FALSE,
             <<EscapedTag(P2("m", "a")), UnescapedTag(P1("b")),
               Section(P1("a"), FALSE, <<UnescapedTag(P1("s"))>>, FD)>>, FD),
     Section(P1("s"), FALSE, <<EscapedTag(DOT), UnescapedTag(P1("t"))>>, FD),
     Section(P1("v"), FALSE,
             <<Section(DOT, FALSE, <<UnescapedTag(P1("s"))>>, FD)>>, FD)}
    \cup {EscapedTag(p) : p \in TagPaths}
    \cup {UnescapedTag(p) : p \in TagPaths}
    \cup {Section(p, FALSE, <<TextA>>, FD) : p \in SectionPaths}
    \cup {Section(p, TRUE, <<TextA>>, FD) : p \in SectionPaths}

\* Tokens that exist only under feature "CFEngine".
AtBlank == <<At, Text(<<" ">>)>>

CFEngineAtoms ==
    {At,
     Section(P1("v"), FALSE, AtBlank, FD),
     Section(P1("m"), FALSE, <<At, EscapedTag(DOT)>>, FD),
     Section(P1("o"), FALSE, AtBlank, FD),
     TopSection(AtBlank),
     TopSection(<<UnescapedTag(P1("t")), UnescapedTag(P1("a"))>>),
     Section(P1("v"), FALSE, <<TopSection(AtBlank), At>>, FD),
     Section(P1("v"), FALSE,
             <<At, Section(P1("w"), FALSE, AtBlank, FD), At>>, FD),
     Section(P1("v"), FALSE,
             <<At, Section(P1("v"), FALSE, <<TextA>>, FD), At>>, FD),
     Section(P1("v"), FALSE,
             <<Section(P1("m"), FALSE, <<At>>, FD), At>>, FD),
     Section(P1("m"), FALSE,
             <<At, Section(P1("v"), FALSE, <<TextA>>, FD), At>>, FD),
     Section(P1("m"), FALSE, <<At, Partial(<<"P">>, <<" ">>)>>, FD),
     Section(P1("v"), FALSE,
             <<At, Section(P1("t"), FALSE, <<TextA>>, FD),
               Section(P1("z"), TRUE, <<TextA>>, FD), At>>, FD)}

Atoms(cf) == IF cf THEN BaseAtoms \cup CFEngineAtoms ELSE BaseAtoms

Pre == Text(<<"h">>)
Post == Text(<<"x", NL, "y">>)

Bodies(cf) == {<<a>> : a \in Atoms(cf)}
              \cup {<<Pre, a>> : a \in Atoms(cf)}
              \cup {<<a, Post>> : a \in Atoms(cf)}

IndentA == <<" ", " ">>
IndentB == <<">", " ">>
PartialA == Partial(<<"A">>, IndentA)
PartialB == Partial(<<"B">>, IndentB)

\* The partials of the template: A holds the body under test, B invokes A,
\* P is a two-line partial, R invokes itself.
PartialsFor(body) ==
    (<<"A">> :> body)
    @@ (<<"B">> :> <<PartialA, Text(<<"z", NL>>)>>)
    @@ (<<"P">> :> <<Text(<<"x", NL, "y", NL>>)>>)
    @@ (<<"R">> :> <<Text(<<"r", NL>>), Partial(<<"R">>, <<" ">>)>>)

\* The template's own tokens: the body, or the body as partial A, or the
\* body as partial A inside partial B.
Wrappings(body) == {body, <<PartialA>>, <<PartialB>>}

----------------------------------------------------------------------------
(* Template::render_data and RenderContext::new *)

Init ==
    /\ cfengine \in BOOLEAN
    /\ root \in Roots
    /\ \E body \in Bodies(cfengine) :
         /\ partials = PartialsFor(body)
         /\ \E tokens \in Wrappings(body) :
              frames = <<[kind |-> "root", tokens |-> tokens, pos |-> 1,
                          visits |-> NoVisits, vi |-> 1, saved |-> <<>>,
                          fid |-> None, escape |-> FALSE, tok |-> Tok("none"),
                          entry |-> [bufs |-> << <<>> >>, at |-> <<>>,
                                     indent |-> <<>>, line_start |-> TRUE,
                                     stack |-> <<root>>, calls |-> <<>>,
                                     depth |-> 0]]>>
    /\ stack = <<root>>
    /\ indent = <<>>
    /\ line_start = TRUE
    /\ at = <<>>
    /\ bufs = << <<>> >>
    /\ borrowed = {}
    /\ calls = <<>>
    /\ status = "run"
    /\ last = [op |-> "new", tok |-> Tok("none"), val |-> None,
               pre |-> [bufs |-> << <<>> >>, at |-> <<>>, indent |-> <<>>,
                        line_start |-> TRUE, stack |-> <<root>>,
                        calls |-> <<>>, depth |-> 0],
               frame |-> NoFrame]

----------------------------------------------------------------------------
(* render_token, one action per token kind *)

RenderText ==
    /\ AtToken /\ Cur.kind = "Text"
    /\ LET r == render_text(Cur.text, indent, line_start) IN
         /\ bufs' = Emit(r.bytes)
         /\ line_start' = r.ls
    /\ frames' = Advance(frames)
    /\ last' = Did("RenderText", Cur, None, NoFrame)
    /\ UNCHANGED <<cfengine, partials, root, stack, indent, at, borrowed,
                   calls, status>>

RenderAt ==
    /\ AtToken /\ Cur.kind = "At" /\ cfengine
    /\ LET r == render_at(at, line_start) IN
         /\ bufs' = Emit(r.bytes)
         /\ line_start' = r.ls
    /\ frames' = Advance(frames)
    /\ last' = Did("RenderAt", Cur, None, NoFrame)
    /\ UNCHANGED <<cfengine, partials, root, stack, indent, at, borrowed,
                   calls, status>>

\* The Data::Fun arm of render_utag and of render_section: borrow_mut(),
\* render_fun, then render() of the compiled tokens.  pre is what was written
\* before the arm; scratch tells that the writer is a new buffer of
\* render_etag.
CallFun(op, v, src, otag, ctag, pre, scratch) ==
    /\ Len(frames) < MaxDepth
    /\ last' = Did(op, Cur, v, NoFrame)
    /\ IF v \in borrowed
       THEN \* BorrowMutError
            /\ status' = "panic"
            /\ bufs' = IF scratch THEN bufs ELSE Emit(pre)
            /\ UNCHANGED <<frames, borrowed, calls>>
       ELSE LET c == render_fun(v, src, otag, ctag) IN
            /\ calls' = Append(calls, [fid |-> v, src |-> src])
            /\ IF c.ok
               THEN /\ frames' = Append(frames,
                          [Frame("fun", c.tokens, NoVisits, Cur)
                              EXCEPT !.fid = v, !.escape = scratch])
                    /\ borrowed' = borrowed \cup {v}
                    /\ bufs' = IF scratch THEN Append(bufs, pre) ELSE Emit(pre)
                    /\ UNCHANGED status
               ELSE /\ status' = "err"
                    /\ bufs' = IF scratch THEN bufs ELSE Emit(pre)
                    /\ UNCHANGED <<frames, borrowed>>
    /\ UNCHANGED <<cfengine, partials, root, stack, indent, line_start, at>>

IsFun(v) == v # None /\ Node(v).tag = "Fun"

RenderUtag ==
    /\ AtToken /\ Cur.kind = "UnescapedTag"
    /\ LET v == find(Cur.path, stack) IN
         IF IsFun(v)
         THEN CallFun("RenderUtag", v, <<>>, OTAG, CTAG,
                      write_indent(indent, line_start), FALSE)
         ELSE LET r == render_utag_value(v, indent, line_start) IN
              /\ bufs' = Emit(r.bytes)
              /\ line_start' = r.ls
              /\ frames' = Advance(frames)
              /\ last' = Did("RenderUtag", Cur, v, NoFrame)
              /\ UNCHANGED <<cfengine, partials, root, stack, indent, at,
                             borrowed, calls, status>>

RenderEtag ==
    /\ AtToken /\ Cur.kind = "EscapedTag"
    /\ LET v == find(Cur.path, stack) IN
         IF IsFun(v)
         THEN CallFun("RenderEtag", v, <<>>, OTAG, CTAG,
                      write_indent(indent, line_start), TRUE)
         ELSE LET r == render_etag_value(v, indent, line_start) IN
              /\ bufs' = Emit(r.bytes)
              /\ line_start' = r.ls
              /\ frames' = Advance(frames)
              /\ last' = Did("RenderEtag", Cur, v, NoFrame)
              /\ UNCHANGED <<cfengine, partials, root, stack, indent, at,
                             borrowed, calls, status>>

\* The token renders nothing and render() goes on to the next token.
Skip(op, v) ==
    /\ frames' = Advance(frames)
    /\ last' = Did(op, Cur, v, NoFrame)
    /\ UNCHANGED <<cfengine, partials, root, stack, indent, line_start, at,
                   bufs, borrowed, calls, status>>

\* The first rendering of a section's children.
EnterVisits(op, kind, v, visits) ==
    /\ Len(frames) < MaxDepth
    /\ frames' = Append(frames, Frame(kind, Cur.children, visits, Cur))
    /\ stack' = IF visits[1].push THEN Append(stack, visits[1].id) ELSE stack
    /\ at' = IF visits[1].setAt THEN visits[1].key ELSE at
    /\ last' = Did(op, Cur, v, NoFrame)
    /\ UNCHANGED <<cfengine, partials, root, indent, line_start, bufs,
                   borrowed, calls, status>>

RenderInvertedSection ==
    /\ AtToken /\ Cur.kind = "Section" /\ Cur.inverted
    /\ LET v == find(Cur.path, stack) IN
         IF inverted_renders(v)
         THEN EnterVisits("RenderInvertedSection", "inverted", v,
                          <<Visit(None, FALSE, FALSE, <<>>)>>)
         ELSE Skip("RenderInvertedSection", v)

RenderSection ==
    /\ AtToken /\ Cur.kind = "Section" /\ ~Cur.inverted
    /\ LET v == find(Cur.path, stack) IN
         IF IsFun(v)
         THEN CallFun("RenderSection", v, Cur.fdata[2], Cur.fdata[1],
                      Cur.fdata[3], <<>>, FALSE)
         ELSE LET visits == section_visits(v, Cur.children, cfengine) IN
              IF visits = <<>> THEN Skip("RenderSection", v)
              ELSE EnterVisits("RenderSection", "section", v, visits)

RenderSectionTop ==
    /\ AtToken /\ Cur.kind = "TopSection" /\ cfengine
    /\ LET visits == top_visits(stack, 1, Cur.children) IN
         IF visits = <<>> THEN Skip("RenderSectionTop", None)
         ELSE EnterVisits("RenderSectionTop", "top", None, visits)

RenderPartial ==
    /\ AtToken /\ Cur.kind = "Partial"
    /\ IF Cur.name \in DOMAIN partials
       THEN /\ Len(frames) < MaxDepth
            /\ frames' = Append(frames,
                   Frame("partial", partials[Cur.name], NoVisits, Cur))
            /\ indent' = partial_indent(indent, Cur.indent)
            /\ last' = Did("RenderPartial", Cur, None, NoFrame)
            /\ UNCHANGED <<cfengine, partials, root, stack, line_start, at,
                           bufs, borrowed, calls, status>>
       ELSE Skip("RenderPartial", None)

\* Token::IncompleteSection: Err(Error::IncompleteSection), which every
\* caller passes on with `?`.
RenderIncomplete ==
    /\ AtToken /\ Cur.kind = "IncompleteSection"
    /\ status' = "err"
    /\ last' = Did("RenderIncomplete", Cur, None, NoFrame)
    /\ UNCHANGED <<cfengine, partials, root, frames, stack, indent,
                   line_start, at, bufs, borrowed, calls>>

----------------------------------------------------------------------------
(* render() returns to its caller *)

IsSectionFrame(f) == f.kind \in {"section", "inverted", "top"}

\* One rendering of the children is over and another follows.
NextIteration ==
    /\ AtEnd /\ IsSectionFrame(Top) /\ Top.vi < Len(Top.visits)
    /\ LET cur == Top.visits[Top.vi]
           nxt == Top.visits[Top.vi + 1]
           at1 == at_after_visit(cur, at)
           st1 == stack_after_visit(cur, stack)
       IN  /\ at' = IF nxt.setAt THEN nxt.key ELSE at1
           /\ stack' = IF nxt.push THEN Append(st1, nxt.id) ELSE st1
    /\ frames' = [frames EXCEPT ![Len(frames)].vi = @ + 1,
                                ![Len(frames)].pos = 1]
    /\ last' = Did("NextIteration", Top.tok, None, NoFrame)
    /\ UNCHANGED <<cfengine, partials, root, indent, line_start, bufs,
                   borrowed, calls, status>>

\* The last rendering of the children is over: the section is done.
SectionReturn ==
    /\ AtEnd /\ IsSectionFrame(Top) /\ Top.vi = Len(Top.visits)
    /\ LET cur == Top.visits[Top.vi] IN
         /\ at' = at_after_visit(cur, at)
         /\ stack' = stack_after_visit(cur, stack)
    /\ frames' = Advance(Pop(frames))
    /\ last' = Did("SectionReturn", Top.tok, None, Top)
    /\ UNCHANGED <<cfengine, partials, root, indent, line_start, bufs,
                   borrowed, calls, status>>

PartialReturn ==
    /\ AtEnd /\ Top.kind = "partial"
    /\ indent' = partial_restore(Top.saved, indent)
    /\ frames' = Advance(Pop(frames))
    /\ last' = Did("PartialReturn", Top.tok, None, Top)
    /\ UNCHANGED <<cfengine, partials, root, stack, line_start, at, bufs,
                   borrowed, calls, status>>

\* The tokens of a producer are rendered: the RefMut guard goes out of scope
\* and render_etag escapes what its scratch buffer holds.
FunReturn ==
    /\ AtEnd /\ Top.kind = "fun"
    /\ borrowed' = borrowed \ {Top.fid}
    /\ bufs' = IF Top.escape
               THEN [Pop(bufs) EXCEPT ![Len(bufs) - 1] = @ \o escape(Wr)]
               ELSE bufs
    /\ frames' = Advance(Pop(frames))
    /\ last' = Did("FunReturn", Top.tok, Top.fid, Top)
    /\ UNCHANGED <<cfengine, partials, root, stack, indent, line_start, at,
                   calls, status>>

\* render_data's call of render() returns Ok(()).
Finish ==
    /\ AtEnd /\ Top.kind = "root"
    /\ status' = "ok"
    /\ frames' = <<>>
    /\ last' = Did("Finish", Top.tok, None, Top)
    /\ UNCHANGED <<cfengine, partials, root, stack, indent, line_start, at,
                   bufs, borrowed, calls>>

Next ==
    \/ RenderText
    \/ RenderAt
    \/ RenderUtag
    \/ RenderEtag
    \/ RenderInvertedSection
    \/ RenderSection
    \/ RenderSectionTop
    \/ RenderPartial
    \/ RenderIncomplete
    \/ NextIteration
    \/ SectionReturn
    \/ PartialReturn
    \/ FunReturn
    \/ Finish

Spec == Init /\ [][Next]_vars

\* The output so far.
Out == bufs[1]

----------------------------------------------------------------------------
(* Vocabulary of the properties *)

TagOps == {"RenderUtag", "RenderEtag"}

IsTag(v, t) == v # None /\ Node(v).tag = t

\* The last step rendered a tag whose path resolved to a value that is no
\* producer.
TagDone == last.op \in TagOps /\ ~IsFun(last.val)

\* render() has gone on to the token after the one the last step rendered:
\* the token's rendering returned Ok(()).
ReturnedOk ==
    /\ status = "run"
    /\ Len(frames) = last.pre.depth
    /\ Top.pos > 1
    /\ Top.tokens[Top.pos - 1] = last.tok

\* The bytes the last step wrote to the writer it was given.
Written ==
    LET n == Len(last.pre.bufs)
    IN  SubSeq(bufs[n], Len(last.pre.bufs[n]) + 1, Len(bufs[n]))

HasPrefix(s, p) == Len(p) <= Len(s) /\ SubSeq(s, 1, Len(p)) = p

\* The lines of s, without their newlines.
RECURSIVE SplitLines(_, _)
SplitLines(s, cur) ==
    IF s = <<>> THEN (IF cur = <<>> THEN <<>> ELSE <<cur>>)
    ELSE IF Head(s) = NL THEN <<cur>> \o SplitLines(Tail(s), <<>>)
    ELSE SplitLines(Tail(s), Append(cur, Head(s)))

Lines(s) == SplitLines(s, <<>>)

----------------------------------------------------------------------------
(* C1 *)

\* A plain section on value v renders nothing: no rendering of the children
\* and no producer output.
PlainRendersNothing(v, children) ==
    ~IsFun(v) /\ section_visits(v, children, cfengine) = <<>>

\* C1: for every resolved value, an inverted section renders its children if
\* and only if a plain section on the same path and stack would render
\* nothing.
C1_InvertedIffPlainEmpty ==
    (AtToken /\ Cur.kind = "Section") =>
        LET v == find(Cur.path, stack)
        IN  inverted_renders(v) <=> PlainRendersNothing(v, Cur.children)

----------------------------------------------------------------------------
(* C2 *)

\* The frame is that of a Sequence section, of a Mapping section iterated
\* by anchor, or of a whole-stack section.
IsIterating(f) == f.kind = "top" \/ (f.kind = "section" /\ f.visits[1].setAt)

\* C2: when an iterating section has finished, the anchor holds the value it
\* had immediately before the section was entered.
C2_AnchorRestored ==
    (last.op = "SectionReturn" /\ IsIterating(last.frame)) =>
        at = last.frame.entry.at

----------------------------------------------------------------------------
(* C3 *)

\* The line starts with the prefix p, written once.
ExactlyPrefixed(line, p) ==
    /\ HasPrefix(line, p)
    /\ ~HasPrefix(SubSeq(line, Len(p) + 1, Len(line)), p)

\* Partial A, invoked inside partial B, has just returned.
AReturnedInsideB ==
    /\ last.op = "PartialReturn"
    /\ last.frame.tok = PartialA
    /\ last.frame.entry.indent = IndentB
    /\ Len(bufs) = 1

\* C3: every line partial A emitted inside partial B starts with exactly B's
\* indent followed by A's, and once A has returned the indent prefix is what
\* it was before A was entered.
C3_NestedPartialIndent ==
    AReturnedInsideB =>
        LET emitted == SubSeq(Out, Len(last.frame.entry.bufs[1]) + 1, Len(Out))
            lines   == Lines(emitted)
        IN  /\ indent = last.frame.entry.indent
            /\ \A i \in 1..Len(lines) :
                   lines[i] # <<>> => ExactlyPrefixed(lines[i], IndentB \o IndentA)

----------------------------------------------------------------------------
(* C4 *)

\* C4: a tag whose path resolves to Null writes no bytes, whatever the
\* indent prefix and the line-start flag.
C4_NullTagWritesNothing ==
    (TagDone /\ IsTag(last.val, "Null")) => bufs = last.pre.bufs

----------------------------------------------------------------------------
(* C5 *)

\* C5: a tag whose path does not resolve writes no bytes, returns success and
\* leaves indent prefix, line-start flag, anchor and context stack as they
\* were.
C5_MissingIsEmpty ==
    (last.op \in TagOps /\ last.val = None) =>
        /\ bufs = last.pre.bufs
        /\ ReturnedOk
        /\ indent = last.pre.indent
        /\ line_start = last.pre.line_start
        /\ at = last.pre.at
        /\ stack = last.pre.stack

\* An escaped tag on an unresolved path was rendered at line start under a
\* non-empty indent prefix.
C5_Witness ==
    /\ last.op = "RenderEtag" /\ last.val = None
    /\ last.tok.path # <<>>
    /\ last.pre.indent # <<>> /\ last.pre.line_start

----------------------------------------------------------------------------
(* C6 *)

\* C6: a plain section whose path resolves to a producer invokes the producer
\* exactly once with the section's raw source, compiles what it returns with
\* the section's own delimiters, renders the compiled tokens (never the
\* section's children) and leaves the context stack as it was on entry.
C6_ProducerSection ==
    (last.op = "RenderSection" /\ IsFun(last.val)) =>
        LET src == last.tok.fdata[2]
            c   == Compile(FunBody(last.val, src),
                           last.tok.fdata[1], last.tok.fdata[3])
        IN  /\ calls = Append(last.pre.calls, [fid |-> last.val, src |-> src])
            /\ stack = last.pre.stack
            /\ c.ok => /\ status = "run"
                       /\ Len(frames) = last.pre.depth + 1
                       /\ Top.kind = "fun" /\ Top.pos = 1
                       /\ Top.tokens = c.tokens
            /\ ~c.ok => status = "err"

----------------------------------------------------------------------------
(* C7 *)

ResolvingOps == {"RenderUtag", "RenderEtag", "RenderSection",
                 "RenderInvertedSection"}

\* The stack entries that are Mappings holding key.
Holders(key, stk) ==
    {i \in 1..Len(stk) : IsTag(stk[i], "Map") /\ MapGet(stk[i], key) # None}

\* What the path denotes on the stack: the value under path[1] in the
\* innermost Mapping that holds path[1], followed through Mappings only.
Resolve(path, stk) ==
    IF path = <<>> THEN stk[Len(stk)]
    ELSE IF Holders(path[1], stk) = {} THEN None
    ELSE LET h == Holders(path[1], stk)
             inner == CHOOSE i \in h : \A j \in h : j <= i
             n[k \in 1..Len(path)] ==
                 IF k = 1 THEN MapGet(stk[inner], path[1])
                 ELSE IF IsTag(n[k - 1], "Map") THEN MapGet(n[k - 1], path[k])
                 ELSE None
         IN  n[Len(path)]

\* C7: path resolution yields the value under path[1] in the innermost
\* Mapping of the stack that holds path[1], followed along the other segments
\* through Mappings only, and nothing (without falling back to an outer
\* entry) when a segment is missing or a non-Mapping is stepped into; the
\* empty path yields the top of the stack; resolution raises no error and
\* leaves the stack alone.
C7_PathResolution ==
    /\ last.op \in ResolvingOps =>
           last.val = Resolve(last.tok.path, last.pre.stack)
    /\ TagDone => (status = "run" /\ stack = last.pre.stack)

\* Inside a section on a Mapping, a two-segment path stepped into a Text of
\* the inner Mapping and resolved to nothing, though the root holds the path.
C7_Witness ==
    /\ last.op \in TagOps
    /\ Len(last.tok.path) = 2 /\ Len(last.pre.stack) = 2
    /\ last.val = None
    /\ Holders(last.tok.path[1], last.pre.stack) = {1, 2}
    /\ Resolve(last.tok.path, <<last.pre.stack[1]>>) # None

----------------------------------------------------------------------------
(* C8 *)

\* C8: a tag whose path resolves to a Sequence or a Mapping contributes no
\* bytes, and the render goes on with the next token.
C8_CollectionTagWritesNothing ==
    (TagDone /\ (IsTag(last.val, "Vec") \/ IsTag(last.val, "Map"))) =>
        (bufs = last.pre.bufs /\ ReturnedOk)

----------------------------------------------------------------------------
(* C9 *)

\* The five-character mapping.
FiveCharMap ==
    [c \in {"<", ">", "&", "\"", "'"} |->
        CASE c = "<"  -> <<"&", "l", "t", ";">>
          [] c = ">"  -> <<"&", "g", "t", ";">>
          [] c = "&"  -> <<"&", "a", "m", "p", ";">>
          [] c = "\"" -> <<"&", "q", "u", "o", "t", ";">>
          [] c = "'"  -> <<"&", "#", "3", "9", ";">>]

HtmlEscaped(text) ==
    Concat([i \in 1..Len(text) |->
               IF text[i] \in DOMAIN FiveCharMap THEN FiveCharMap[text[i]]
               ELSE <<text[i]>>])

\* C9: an escaped tag on a Text emits what the unescaped tag would emit (the
\* indent prefix when at line start, then the text) with the five-character
\* mapping applied to the text only.
C9_EscapeValueOnly ==
    (last.op = "RenderEtag" /\ IsTag(last.val, "String")) =>
        Written = write_indent(last.pre.indent, last.pre.line_start)
                  \o HtmlEscaped(Node(last.val).s)

----------------------------------------------------------------------------
(* C10 *)

\* Everything written so far, the scratch buffers of the escaped tags in
\* progress included.
Flat(bs) == Concat(bs)

\* Nothing has been written on the current output line.
AtLineStart(bs) == Flat(bs) = <<>> \/ Last(Flat(bs)) = NL

\* The text with the prefix before each character that starts a logical
\* line: a character other than a newline that follows a newline, or that
\* comes first when the text begins at line start.
Indented(text, prefix, fresh) ==
    Concat([i \in 1..Len(text) |->
               IF /\ text[i] # NL
                  /\ IF i = 1 THEN fresh ELSE text[i - 1] = NL
               THEN prefix \o <<text[i]>>
               ELSE <<text[i]>>])

\* C10: a Text token is written with the indent prefix at the start of each
\* of its logical lines that begins at line start, never before a bare
\* newline and never in the middle of a line an earlier token began; with an
\* empty prefix it is copied verbatim.
C10_TextIndentation ==
    last.op = "RenderText" =>
        Written = Indented(last.tok.text, last.pre.indent,
                           AtLineStart(last.pre.bufs))

----------------------------------------------------------------------------
(* C11 *)

\* The value the section of frame f resolved, on the stack it was entered
\* with.
SectionValue(f) == find(f.tok.path, f.entry.stack)

\* render() is at the children of a plain section on a Vec: between two of
\* the children's tokens, or past the last one.
InVecRendering ==
    /\ Running
    /\ Top.kind = "section"
    /\ IsTag(SectionValue(Top), "Vec")

\* C11: a plain section on a Vec renders its children once per item, in the
\* Vec's order; while render() is at the children in the k-th rendering the
\* k-th item is on top of the stack and the anchor is the decimal string of
\* the item's 0-based index; a section on an empty Vec writes nothing.
C11_VecSection ==
    /\ InVecRendering =>
         LET items == Node(SectionValue(Top)).items
             k == Top.vi
         IN  /\ Len(Top.visits) = Len(items)
             /\ k \in 1..Len(items)
             /\ stack = Append(Top.entry.stack, items[k])
             /\ at = <<Digits[k]>>
    /\ (last.op = "SectionReturn" /\ last.frame.kind = "section"
            /\ IsTag(SectionValue(last.frame), "Vec")) =>
         last.frame.vi = Len(Node(SectionValue(last.frame)).items)
    /\ (last.op = "RenderSection" /\ IsTag(last.val, "Vec")
            /\ Node(last.val).items = <<>>) =>
         ReturnedOk /\ bufs = last.pre.bufs

\* The part of C11 the code keeps: the count, the order, the item on top of
\* the stack, and the anchor when a rendering of the children begins.
C11_AtStartOfRendering ==
    (InVecRendering /\ Top.pos = 1) =>
        LET items == Node(SectionValue(Top)).items
            k == Top.vi
        IN  /\ Len(Top.visits) = Len(items)
            /\ k \in 1..Len(items)
            /\ stack = Append(Top.entry.stack, items[k])
            /\ at = <<Digits[k]>>

----------------------------------------------------------------------------
(* C12 *)

MapKeys(v) == {e[1] : e \in Node(v).entries}

\* The k-th key of Map v in ascending order: the key with k - 1 smaller keys.
KeyOfRank(v, k) ==
    CHOOSE key \in MapKeys(v) :
        Cardinality({x \in MapKeys(v) : StrLess(x, key)}) = k - 1

\* A rendering of the children of a plain section on a Map begins.
MapRenderingBegins ==
    /\ Running
    /\ Top.kind = "section"
    /\ Top.pos = 1
    /\ IsTag(SectionValue(Top), "Map")

C12_WitnessWhole ==
    /\ cfengine /\ MapRenderingBegins
    /\ ~ContainsAt(Top.tokens)
    /\ Cardinality(MapKeys(SectionValue(Top))) > 1

----------------------------------------------------------------------------
(* C13 *)

\* A rendering of the children of a whole-stack section begins.
TopRenderingBegins == Running /\ Top.kind = "top" /\ Top.pos = 1

\* What render_section_top renders for one entry of the stack: nothing for a
\* value that is no Map; for a Map, the entries in ascending key order when
\* the children contain the anchor marker, else the Map itself.
FrameRenderings(v, children) ==
    IF ~IsTag(v, "Map") THEN <<>>
    ELSE IF ContainsAt(children)
         THEN [k \in 1..Cardinality(MapKeys(v)) |->
                  [id |-> MapGet(v, KeyOfRank(v, k)), anchor |-> TRUE,
                   key |-> KeyOfRank(v, k)]]
         ELSE <<[id |-> v, anchor |-> FALSE, key |-> <<>>]>>

TopRenderings(stk, children) ==
    Concat([i \in 1..Len(stk) |-> FrameRenderings(stk[i], children)])

\* C13 (as claimed): the whole-stack section renders its children once for
\* every entry the stack holds when the section is entered, from the
\* outermost to the innermost, with that entry on top of the stack.
C13_EveryFrameVisited ==
    /\ last.op = "RenderSectionTop" =>
         Running /\ Top.kind = "top" /\ Len(frames) = last.pre.depth + 1
    /\ TopRenderingBegins =>
         /\ Len(Top.visits) = Len(Top.entry.stack)
         /\ stack = Append(Top.entry.stack, Top.entry.stack[Top.vi])

\* C13 (amended): the whole-stack section goes through the entries the stack
\* holds when it is entered, from the outermost to the innermost, and renders
\* its children for the Maps among them only: once per entry of the Map, in
\* ascending key order, with the entry's value pushed and the anchor set to
\* the entry's key, when the children contain the anchor marker; once, with
\* the Map pushed and the anchor left alone, when they do not. Entries of the
\* stack that are no Map are passed over.
C13_MapFramesVisited ==
    /\ TopRenderingBegins =>
         LET rs == TopRenderings(Top.entry.stack, Top.tokens)
             k == Top.vi
         IN  /\ Len(Top.visits) = Len(rs)
             /\ k \in 1..Len(rs)
             /\ stack = Append(Top.entry.stack, rs[k].id)
             /\ at = IF rs[k].anchor THEN rs[k].key ELSE Top.entry.at
    /\ (last.op = "SectionReturn" /\ last.frame.kind = "top") =>
         last.frame.vi = Len(TopRenderings(last.frame.entry.stack,
                                           last.frame.tokens))
    /\ (last.op = "RenderSectionTop"
            /\ TopRenderings(last.pre.stack, last.tok.children) = <<>>) =>
         ReturnedOk /\ bufs = last.pre.bufs

\* A whole-stack section entered on a stack of two entries, a Map below a
\* value that is no Map, renders the last entry of the Map: the anchor is
\* the entry's key and the innermost entry of the stack gets no rendering.
C13_Witness ==
    /\ TopRenderingBegins
    /\ ContainsAt(Top.tokens)
    /\ Len(Top.entry.stack) = 2
    /\ IsTag(Top.entry.stack[1], "Map")
    /\ ~IsTag(Top.entry.stack[2], "Map")
    /\ Top.vi = Cardinality(MapKeys(Top.entry.stack[1]))
    /\ Top.vi = Len(Top.visits)
    /\ at = <<"w">>

----------------------------------------------------------------------------
(* C14 *)

Max(S) == CHOOSE x \in S : \A y \in S : y <= x

\* A producer is reachable from value id.
RECURSIVE HasFun(_)
HasFun(id) ==
    \/ Node(id).tag = "Fun"
    \/ \E i \in 1..Len(Node(id).items) : HasFun(Node(id).items[i])
    \/ \E e \in Node(id).entries : HasFun(e[2])

\* The template's own token list.
RootTokens == IF frames # <<>> THEN frames[1].tokens ELSE last.frame.tokens

\* The names of the partials of the mapping that tokens invoke, at any depth
\* of sections.
RECURSIVE PartialRefs(_)
PartialRefs(tokens) ==
    UNION {IF tokens[i].kind = "Partial"
           THEN {tokens[i].name} \cap DOMAIN partials
           ELSE PartialRefs(tokens[i].children) : i \in 1..Len(tokens)}

\* The partials that are rendered when the partials in names are, in at most
\* n further invocations.
RECURSIVE Invoked(_, _)
Invoked(names, n) ==
    IF n = 0 THEN names
    ELSE Invoked(names \cup UNION {PartialRefs(partials[x]) : x \in names},
                 n - 1)

InvokedBy(tokens) ==
    Invoked(PartialRefs(tokens), Cardinality(DOMAIN partials))

\* No partial the template can reach invokes itself, directly or through
\* other partials.
NoPartialCycle ==
    \A x \in InvokedBy(RootTokens) : x \notin InvokedBy(partials[x])

\* The nesting depth of a token list: one for the list, plus the deepest of
\* the lists nested in its tokens, the children of a section and the token
\* list of a partial.  A partial that is already being expanded (seen) adds
\* nothing, which makes the depth finite for every partials mapping.
RECURSIVE NestingDepth(_, _)
NestingDepth(tokens, seen) ==
    1 + Max({0} \cup
            {LET tok == tokens[i] IN
               CASE tok.kind \in {"Section", "TopSection"} ->
                      NestingDepth(tok.children, seen)
                 [] tok.kind = "Partial" /\ tok.name \in DOMAIN partials
                                         /\ tok.name \notin seen ->
                      NestingDepth(partials[tok.name], seen \cup {tok.name})
                 [] OTHER -> 0
             : i \in 1..Len(tokens)})

\* The depth of the recursion of render().
RenderDepth == Len(frames)

\* How far frame f is from its return: the renderings of the children still
\* to begin, then the tokens of the list still to render.
FrameRank(f) ==
    <<IF IsSectionFrame(f) THEN Len(f.visits) - f.vi ELSE 0,
      Len(f.tokens) - f.pos + 1>>

RankLess(a, b) == a[1] < b[1] \/ (a[1] = b[1] /\ a[2] < b[2])

\* The call stack gs is nearer the end of the render than fs: lower in the
\* lexicographic order of the levels, outermost first, where a level that
\* holds no call ranks above every call.  The order is well-founded on
\* stacks of bounded depth, so a render whose every step descends in it
\* takes finitely many steps.
Descends(fs, gs) ==
    \E j \in 1..Len(gs) :
        /\ \A i \in 1..(j - 1) :
              i <= Len(fs) /\ FrameRank(gs[i]) = FrameRank(fs[i])
        /\ j > Len(fs) \/ RankLess(FrameRank(gs[j]), FrameRank(fs[j]))

\* C14 (as claimed): with no producer in the data, the recursion of render()
\* is never deeper than the nesting of the token tree, whatever the partials
\* mapping.
C14_DepthBounded ==
    ~HasFun(root) => RenderDepth <= NestingDepth(RootTokens, {})

\* render() has an arm for the token or the return it is at, and the bound
\* of the model on the depth of the calls does not hold it back.
CanStep ==
    IF AtEnd THEN Top.kind \in {"root", "section", "inverted", "top", "partial",
                              "fun"}
    ELSE CASE Cur.kind \in {"Text", "EscapedTag", "UnescapedTag",
                            "IncompleteSection"} -> TRUE
           [] Cur.kind = "At" -> cfengine
           [] Cur.kind = "TopSection" -> cfengine /\ Len(frames) < MaxDepth
           [] Cur.kind \in {"Section", "Partial"} -> Len(frames) < MaxDepth
           [] OTHER -> FALSE

\* C14 (amended): with no producer in the data and no partial that invokes
\* itself, the recursion of render() is never deeper than the nesting of the
\* token tree with the partials' token lists nested under the tokens that
\* invoke them, and the render comes to an end: until it returns (Ok, or Err
\* on an incomplete section) it has a step to take, and every step brings it
\* nearer its end.
C14_AcyclicTerminates ==
    /\ [](~HasFun(root) /\ NoPartialCycle =>
            /\ RenderDepth <= NestingDepth(RootTokens, {})
            /\ status \in {"run", "ok", "err"}
            /\ status = "run" => CanStep)
    /\ [][(~HasFun(root) /\ NoPartialCycle) =>
            \/ status' \in {"ok", "err"}
            \/ status' = "run" /\ Descends(frames, frames')]_vars

\* A render without producers and without a partial cycle is five calls of
\* render() deep, which is the nesting depth of its token tree: partial B,
\* partial A and two sections inside it.
C14_Witness ==
    /\ ~HasFun(root) /\ NoPartialCycle
    /\ Running
    /\ RenderDepth = 5
    /\ NestingDepth(RootTokens, {}) = 5
    /\ PartialRefs(RootTokens) # {}

----------------------------------------------------------------------------
(* C15 *)

\* C15: the RefMut guard of a producer is alive only while the closure runs
\* (inside one step of the model), so that between steps no cell is
\* borrowed, and a producer met again in the tokens compiled from its own
\* output is invoked again: no borrow_mut() finds its cell borrowed.
C15_GuardOnlyDuringCall ==
    /\ borrowed = {}
    /\ status # "panic"

\* The part of C15 about re-entry alone: no borrow_mut() finds its cell
\* already borrowed.
C15_NoConflictingBorrow == status # "panic"

----------------------------------------------------------------------------
(* C16 *)

\* C16: while a prefix is in force (inside an indented partial) the
\* line-start flag is true exactly when nothing has been written on the
\* current output line, whatever the tokens rendered so far resolved to; so
\* the prefix, which write_indent writes only when the flag is true, is
\* written at most once per output line.
C16_LineStartExact ==
    (Running /\ indent # <<>>) => (line_start <=> AtLineStart(bufs))

----------------------------------------------------------------------------
(* C17 *)

\* The steps that render a token; when no call of render() was entered by
\* the step, the token's rendering has returned with it.
TokenOps == {"RenderText", "RenderAt", "RenderUtag", "RenderEtag",
             "RenderInvertedSection", "RenderSection", "RenderSectionTop",
             "RenderPartial"}

\* The steps with which the rendering of a section, partial or producer tag
\* returns, its token lists rendered.
ReturnOps == {"SectionReturn", "PartialReturn", "FunReturn"}

\* C17: when the rendering of a token returns Ok the stack holds the entries
\* it held when the rendering began, in the same order; as long as the
\* render runs, and when it has returned, the stack is not empty and its
\* bottom entry is the root data.
C17_StackBalance ==
    /\ (last.op \in TokenOps /\ ReturnedOk) => stack = last.pre.stack
    /\ (last.op \in ReturnOps /\ status = "run") =>
         stack = last.frame.entry.stack
    /\ stack # <<>> /\ stack[1] = root
    /\ status = "ok" => stack = <<root>>

\* A whole-stack section entered inside a section has returned after several
\* renderings, each with a value pushed.
C17_Witness ==
    /\ last.op = "SectionReturn" /\ status = "run"
    /\ last.frame.kind = "top"
    /\ last.frame.vi > 1
    /\ last.frame.visits[last.frame.vi].push
    /\ Len(stack) = 2
    /\ Len(last.pre.stack) = 3

============================================================================
